---- MODULE Spec2Model ----
(***************************************************************************)
(* VMPS: timeline composition of audio and video clips into one media file *)
(* by synthesising calls to ffprobe / ffmpeg.                              *)
(*                                                                         *)
(* Timecodes are Python strings; here a string is a sequence of one-       *)
(* character strings, ordered by code point as Python orders str.  The     *)
(* float returned by timecode2seconds is represented exactly, as an        *)
(* integer number of milliseconds; the pools below hold only timecodes     *)
(* whose value is a binary fraction, so float arithmetic on them is exact. *)
(* None and the empty string, both falsy in Python, are the empty sequence.*)
(***************************************************************************)
EXTENDS Integers, Sequences, FiniteSets, TLC

VARIABLES
    pc,           \* position of the running driver / handler
    caller,       \* who drives the objects: "VMPSTask", "VideoTrack", "AudioTrack", "clip"
    config,       \* the configuration handed to VMPSTask.__init__
    workspace,    \* the task's temporary directory: "none", "exists", "deleted"
    video_track,  \* [present, clips_base, clips_overlay]
    audio_track,  \* [present, clips]
    subtitle,     \* [present]
    idx,          \* loop index of the clip loop in progress
    channel,      \* channel being processed by AudioTrack.process
    todo,         \* channels AudioTrack.process has still to process
    audio_channel_paths, \* channels whose artifact is made, in the order made
    invocations,  \* external-tool invocations made so far, in order
    output,       \* what sits at the output path: "none", "muxed", "moved"
    error,        \* the exception that ended the last handler, or NoError
    calls         \* number of normalize() calls made by a direct caller

vars == <<pc, caller, config, workspace, video_track, audio_track, subtitle,
          idx, channel, todo, audio_channel_paths, invocations, output, error, calls>>

----------------------------------------------------------------------------
(* Bounds of the model. *)

\* normalize() calls a direct caller makes on one clip
MaxCalls == 3
\* clips declared on one track when a track is driven on its own
MaxClips == 3
\* clips declared per track in a whole-task configuration
MaxTaskClips == 2

----------------------------------------------------------------------------
(* Python strings and src/vmps/utils.py *)

Ord(ch) ==
    CASE ch = "." -> 46
      [] ch = "0" -> 48 [] ch = "1" -> 49 [] ch = "2" -> 50 [] ch = "3" -> 51
      [] ch = "4" -> 52 [] ch = "5" -> 53 [] ch = "6" -> 54 [] ch = "7" -> 55
      [] ch = "8" -> 56 [] ch = "9" -> 57
      [] ch = ":" -> 58

\* a < b on Python str: lexicographic by code point, a proper prefix is smaller
RECURSIVE StrLess(_, _)
StrLess(a, b) ==
    IF b = <<>> THEN FALSE
    ELSE IF a = <<>> THEN TRUE
    ELSE IF Head(a) = Head(b) THEN StrLess(Tail(a), Tail(b))
    ELSE Ord(Head(a)) < Ord(Head(b))

\* str.split(sep)
RECURSIVE Split(_, _)
Split(s, sep) ==
    IF \A i \in 1..Len(s) : s[i] # sep THEN <<s>>
    ELSE LET i == CHOOSE i \in 1..Len(s) :
                      s[i] = sep /\ \A j \in 1..(i - 1) : s[j] # sep
         IN  <<SubSeq(s, 1, i - 1)>> \o Split(SubSeq(s, i + 1, Len(s)), sep)

\* int(s) for a string of decimal digits
RECURSIVE PyInt(_)
PyInt(s) ==
    IF s = <<>> THEN 0
    ELSE 10 * PyInt(SubSeq(s, 1, Len(s) - 1)) + (Ord(s[Len(s)]) - 48)

\* float(s) for "d+" or "d+.d{0,3}", in milliseconds
PyFloat(s) ==
    LET parts == Split(s, ".")
        frac  == IF Len(parts) > 1 THEN parts[2] ELSE <<>>
    IN  1000 * PyInt(parts[1]) + PyInt(SubSeq(frac \o <<"0", "0", "0">>, 1, 3))

timecode2seconds(timecode) ==
    LET t == Split(timecode, ":")
    IN  PyInt(t[1]) * 3600000 + PyInt(t[2]) * 60000 + PyFloat(t[3])

\* x sorts before y under key: "span[0]" (lambda x: x.span[0], a str) or
\* "layer" (lambda x: x.layer, an int)
KeyLess(key, x, y) ==
    IF key = "span[0]" THEN StrLess(x.span[1], y.span[1]) ELSE x.layer < y.layer

\* sorted(seq, key=...) / list.sort(key=...): the stable sort, by insertion
RECURSIVE InsertByKey(_, _, _)
InsertByKey(sorted, x, key) ==
    IF sorted = <<>> THEN <<x>>
    ELSE IF KeyLess(key, x, Head(sorted)) THEN <<x>> \o sorted
    ELSE <<Head(sorted)>> \o InsertByKey(Tail(sorted), x, key)

RECURSIVE StableSort(_, _)
StableSort(seq, key) ==
    IF seq = <<>> THEN <<>>
    ELSE InsertByKey(StableSort(SubSeq(seq, 1, Len(seq) - 1), key), seq[Len(seq)], key)

----------------------------------------------------------------------------
(* Timecode literals *)

Tc(h, m, s) == h \o <<":">> \o m \o <<":">> \o s

\* "00:00:00.000"
T0 == Tc(<<"0", "0">>, <<"0", "0">>, <<"0", "0", ".", "0", "0", "0">>)
\* "00:00:00.500"
T0h == Tc(<<"0", "0">>, <<"0", "0">>, <<"0", "0", ".", "5", "0", "0">>)
\* "00:00:01.000"
T1 == Tc(<<"0", "0">>, <<"0", "0">>, <<"0", "1", ".", "0", "0", "0">>)
\* "00:00:02.000"
T2 == Tc(<<"0", "0">>, <<"0", "0">>, <<"0", "2", ".", "0", "0", "0">>)
\* "00:00:2.000": two seconds, the seconds field not zero-padded
T2u == Tc(<<"0", "0">>, <<"0", "0">>, <<"2", ".", "0", "0", "0">>)
\* "00:00:04.000"
T4 == Tc(<<"0", "0">>, <<"0", "0">>, <<"0", "4", ".", "0", "0", "0">>)
\* "00:00:09.000"
T9 == Tc(<<"0", "0">>, <<"0", "0">>, <<"0", "9", ".", "0", "0", "0">>)
\* "00:00:10.000"
T10 == Tc(<<"0", "0">>, <<"0", "0">>, <<"1", "0", ".", "0", "0", "0">>)

None == <<>>

NoError == [type |-> "none", at |-> "none"]
Raise(type, at) == [type |-> type, at |-> at]

\* one external-tool invocation: tool is "probe" (ffmpeg.probe) or "run"
\* (subprocess.run of an ffmpeg command), op the method that made it
Invocation(tool, op, uid, ok, args) ==
    [tool |-> tool, op |-> op, uid |-> uid, ok |-> ok, args |-> args]

NoArgs == [none |-> TRUE]

----------------------------------------------------------------------------
(* Clip.normalize(), src/vmps/audio/track.py and src/vmps/video/track.py *)

\* what a normalize() call hands back to the model: the clip afterwards, the
\* invocations it made, the exception it raised
Returned(c, made) == [clip |-> c, made |-> made, error |-> NoError]
Raised(c, made, type, at) == [clip |-> c, made |-> made, error |-> Raise(type, at)]

\* the source duration normalize() works with: probed, then overridden by the
\* bounds of the trim window that are given
ActualDuration(c) ==
    LET probed  == c.asset.duration
        afterTo == IF c.clip # None /\ c.clip[2] # None
                   THEN timecode2seconds(c.clip[2]) ELSE probed
    IN  IF c.clip # None /\ c.clip[1] # None
        THEN afterTo - timecode2seconds(c.clip[1]) ELSE afterTo

ExpectedDuration(c) == timecode2seconds(c.span[2]) - timecode2seconds(c.span[1])

RunOutcome_FlagBeforeRun(c, made, runOk, type, at) ==
    IF runOk THEN Returned([c EXCEPT !.normalized = TRUE], made)
    ELSE Raised([c EXCEPT !.normalized = TRUE], made, type, at)

\* try: subprocess.run(cmd, check=True); self.normalized = True
\* except CalledProcessError: raise
RunOutcome(c, made, runOk, type, at) ==
    IF runOk THEN Returned([c EXCEPT !.normalized = TRUE], made)
    ELSE Raised(c, made, type, at)

----------------------------------------------------------------------------
(* src/vmps/audio/track.py: AudioClip *)

\* the sample_rate of a clip's config entry: left out, None, or an integer
RateOmitted == [kind |-> "omitted", value |-> 0]
RateNone == [kind |-> "None", value |-> 0]
Rate(n) == [kind |-> "int", value |-> n]

\* sample_rate: Optional[int] = 44100
DefaultSampleRate == 44100

AudioClip_TrackRate(uid, cfg, track_rate) ==
    [uid |-> <<"audio", uid>>, asset |-> cfg.asset, span |-> cfg.span,
     clip |-> cfg.clip, channel |-> cfg.channel, loop |-> cfg.loop,
     sample_rate |-> track_rate, normalized |-> FALSE]

\* AudioClip.__init__: the clip as constructed from its config entry.
\* self.sample_rate = sample_rate if sample_rate else track.sample_rate, where
\* the parameter is DefaultSampleRate for an entry that leaves it out
AudioClip(uid, cfg, track_rate) ==
    LET passed == IF cfg.sample_rate.kind = "omitted"
                  THEN Rate(DefaultSampleRate) ELSE cfg.sample_rate
    IN  [uid |-> <<"audio", uid>>, asset |-> cfg.asset, span |-> cfg.span,
         clip |-> cfg.clip, channel |-> cfg.channel, loop |-> cfg.loop,
         sample_rate |-> IF passed.kind = "int" /\ passed.value # 0
                         THEN passed.value ELSE track_rate,
         normalized |-> FALSE]

AudioDurationMismatch_OrEqual(actual, expected, loop) ==
    actual >= expected \/ (actual < expected /\ ~loop)

\* the two duration checks that raise ValueError
AudioDurationMismatch(actual, expected, loop) ==
    actual > expected \/ (actual < expected /\ ~loop)

AudioLoopCount_Floor(expected, actual) == expected \div actual

\* int(expected_duration // actual_duration) + 1
AudioLoopCount(expected, actual) == (expected \div actual) + 1

\* AudioClip.normalize() past its guard.  probeOk / runOk: whether ffprobe /
\* ffmpeg succeed.
AudioClipNormalizeBody(c, probeOk, runOk) ==
    LET at       == "AudioClip.normalize"
        probe    == Invocation("probe", at, c.uid, probeOk, NoArgs)
        actual   == ActualDuration(c)
        expected == ExpectedDuration(c)
        looping  == c.loop /\ actual < expected
        run      == Invocation("run", at, c.uid, runOk,
                               [aloop |-> IF looping
                                          THEN AudioLoopCount(expected, actual) ELSE 0,
                                atrim |-> IF looping THEN expected ELSE -1,
                                ar |-> c.sample_rate, ac |-> 1])
    IN  IF ~probeOk THEN Raised(c, <<probe>>, "ffmpeg.Error", at)
        ELSE IF AudioDurationMismatch(actual, expected, c.loop)
        THEN Raised(c, <<probe>>, "ValueError", at)
        ELSE IF looping /\ actual = 0
        THEN Raised(c, <<probe>>, "ZeroDivisionError", at)
        ELSE RunOutcome(c, <<probe, run>>, runOk, "CalledProcessError", at)

AudioClipNormalize_NoGuard(c, probeOk, runOk) ==
    AudioClipNormalizeBody(c, probeOk, runOk)

\* AudioClip.normalize()
AudioClipNormalize(c, probeOk, runOk) ==
    IF c.normalized THEN Returned(c, <<>>)
    ELSE AudioClipNormalizeBody(c, probeOk, runOk)

----------------------------------------------------------------------------
(* src/vmps/video/track.py: VideoClip *)

\* VideoClip.__init__ after its codec probe: the clip as constructed
VideoClip(uid, cfg) ==
    [uid |-> <<"video", uid>>, asset |-> cfg.asset, span |-> cfg.span,
     clip |-> cfg.clip, extension |-> cfg.extension, shrink |-> cfg.shrink,
     layer |-> cfg.layer, normalized |-> FALSE]

ExtensionKnown(c) == c.extension \in {"repeat_first", "repeat_last"}

ShrinkKnown(c) == c.shrink \in {"trim_start", "trim_end"}

\* VideoClip.normalize() past its guard
VideoClipNormalizeBody(c, probeOk, runOk) ==
    LET at       == "VideoClip.normalize"
        probe    == Invocation("probe", at, c.uid, probeOk, NoArgs)
        actual   == ActualDuration(c)
        expected == ExpectedDuration(c)
        image    == Invocation("run", at, c.uid, runOk, [t |-> expected])
        run      == Invocation("run", at, c.uid, runOk,
                               [tpad |-> IF actual < expected
                                         THEN expected - actual ELSE 0,
                                policy |-> IF actual < expected THEN c.extension
                                           ELSE IF actual > expected THEN c.shrink
                                           ELSE "none"])
    IN  IF c.asset.kind = "image"
        THEN RunOutcome(c, <<image>>, runOk, "ValueError", at)
        ELSE IF c.asset.kind # "video"
        THEN Raised(c, <<>>, "AssertionError", at)
        ELSE IF ~probeOk THEN Raised(c, <<probe>>, "ffmpeg.Error", at)
        ELSE IF actual < expected /\ ~ExtensionKnown(c)
        THEN Raised(c, <<probe>>, "NotImplementedError", at)
        ELSE IF actual > expected /\ ~ShrinkKnown(c)
        THEN Raised(c, <<probe>>, "NotImplementedError", at)
        ELSE RunOutcome(c, <<probe, run>>, runOk, "ValueError", at)

\* VideoClip.normalize()
VideoClipNormalize(c, probeOk, runOk) ==
    IF c.normalized THEN Returned(c, <<>>)
    ELSE VideoClipNormalizeBody(c, probeOk, runOk)

----------------------------------------------------------------------------
(* A caller holding one constructed clip and calling normalize() on it *)

NoConfig == [video |-> [present |-> FALSE, clips |-> <<>>],
             audio |-> [present |-> FALSE, clips |-> <<>>, sample_rate |-> 0],
             subtitle |-> FALSE, subtitle_clips |-> <<>>]

NoVideoTrack == [present |-> FALSE, clips_base |-> <<>>, clips_overlay |-> <<>>]
NoAudioTrack == [present |-> FALSE, clips |-> <<>>, sample_rate |-> 0]
NoSubtitle == [present |-> FALSE, written |-> FALSE, styles |-> <<>>, clips |-> <<>>]

ClipSpans == {<<T0, T2>>, <<T0, T4>>, <<T1, T4>>, <<T2, T2>>}

ClipWindows == {None, <<T0, T2>>, <<T1, T2>>, <<T0h, T2>>, <<None, T2>>,
                <<T1, None>>, <<T2, T2>>, <<T2, T1>>}

AssetDurations == {1000, 2000, 5000}

AudioAssets == [kind : {"audio"}, duration : AssetDurations]

VideoAssets ==
    [kind : {"image", "video", "other"}, duration : AssetDurations, codec : {"h264"}]

\* the sample rate of the tracks whose configuration does not vary it
PlainSampleRate == 48000

ClipAudioConfigs ==
    [asset : AudioAssets, span : ClipSpans, clip : ClipWindows,
     channel : {0}, loop : BOOLEAN, sample_rate : {RateOmitted}]

ClipVideoConfigs ==
    [asset : VideoAssets, span : ClipSpans, clip : ClipWindows,
     extension : {"repeat_first", "repeat_last", "mirror"},
     shrink : {"trim_start", "trim_end", "speed_up"}, layer : {0}]

InitClip ==
    /\ pc = "clip"
    /\ caller = "clip"
    /\ config = NoConfig
    /\ workspace = "exists"
    /\ \/ /\ \E cfg \in ClipAudioConfigs :
               audio_track = [present |-> TRUE,
                              clips |-> <<AudioClip(1, cfg, PlainSampleRate)>>,
                              sample_rate |-> PlainSampleRate]
          /\ video_track = NoVideoTrack
       \/ /\ \E cfg \in ClipVideoConfigs :
               video_track = [present |-> TRUE, clips_base |-> <<VideoClip(1, cfg)>>,
                              clips_overlay |-> <<>>]
          /\ audio_track = NoAudioTrack
    /\ subtitle = NoSubtitle
    /\ idx = 0
    /\ channel = 0
    /\ todo = {}
    /\ audio_channel_paths = <<>>
    /\ invocations = <<>>
    /\ output = "none"
    /\ error = NoError
    /\ calls = 0

\* clip.normalize() called on an audio clip; an exception reaches the caller
CallAudioClipNormalize ==
    /\ pc = "clip"
    /\ calls < MaxCalls
    /\ \E i \in 1..Len(audio_track.clips), probeOk \in BOOLEAN, runOk \in BOOLEAN :
         LET r == AudioClipNormalize(audio_track.clips[i], probeOk, runOk)
         IN  /\ audio_track' = [audio_track EXCEPT !.clips[i] = r.clip]
             /\ invocations' = invocations \o r.made
             /\ error' = r.error
    /\ calls' = calls + 1
    /\ UNCHANGED <<pc, caller, config, workspace, video_track, subtitle, idx,
                   channel, todo, audio_channel_paths, output>>

\* clip.normalize() called on a video clip
CallVideoClipNormalize ==
    /\ pc = "clip"
    /\ calls < MaxCalls
    /\ \E i \in 1..Len(video_track.clips_base), probeOk \in BOOLEAN, runOk \in BOOLEAN :
         LET r == VideoClipNormalize(video_track.clips_base[i], probeOk, runOk)
         IN  /\ video_track' = [video_track EXCEPT !.clips_base[i] = r.clip]
             /\ invocations' = invocations \o r.made
             /\ error' = r.error
    /\ calls' = calls + 1
    /\ UNCHANGED <<pc, caller, config, workspace, audio_track, subtitle, idx,
                   channel, todo, audio_channel_paths, output>>

NextClip == CallAudioClipNormalize \/ CallVideoClipNormalize

SpecClip == InitClip /\ [][NextClip]_vars

----------------------------------------------------------------------------
(* A caller holding one audio clip built, from a configuration that declares
   sample rates, for a track of that configuration, and calling normalize() *)

TrackSampleRates == {22050, 44100, 48000}

ClipSampleRates == {RateOmitted, RateNone, Rate(0), Rate(22050), Rate(48000)}

RateAudioConfigs ==
    [asset : AudioAssets, span : ClipSpans, clip : {None, <<T0, T2>>},
     channel : {0}, loop : BOOLEAN, sample_rate : ClipSampleRates]

InitRate ==
    /\ pc = "clip"
    /\ caller = "clip"
    /\ \E cfg \in RateAudioConfigs, rate \in TrackSampleRates :
         /\ config = [NoConfig EXCEPT !.audio = [present |-> TRUE, clips |-> <<cfg>>,
                                                 sample_rate |-> rate]]
         /\ audio_track = [present |-> TRUE, clips |-> <<AudioClip(1, cfg, rate)>>,
                           sample_rate |-> rate]
    /\ workspace = "exists"
    /\ video_track = NoVideoTrack
    /\ subtitle = NoSubtitle
    /\ idx = 0
    /\ channel = 0
    /\ todo = {}
    /\ audio_channel_paths = <<>>
    /\ invocations = <<>>
    /\ output = "none"
    /\ error = NoError
    /\ calls = 0

NextRate == CallAudioClipNormalize

SpecRate == InitRate /\ [][NextRate]_vars

----------------------------------------------------------------------------
(* Where control goes when a track's process() returns *)

AfterAudioTrack ==
    IF caller = "AudioTrack" THEN "done"
    ELSE IF subtitle.present THEN "subtitle" ELSE "mux"

AfterVideoTrack ==
    IF caller = "VideoTrack" THEN "done"
    ELSE IF audio_track.present THEN "audio" ELSE AfterAudioTrack

AfterSanityCheck ==
    IF video_track.present THEN "video" ELSE AfterVideoTrack

----------------------------------------------------------------------------
(* src/vmps/video/track.py: VideoTrack *)

\* VideoTrack.duration
VideoTrackDuration(vt) ==
    timecode2seconds(vt.clips_base[Len(vt.clips_base)].span[2])

\* VideoTrack.sanity_check(): the exception it raises, or NoError.  Both
\* comparisons are comparisons of the timecode strings.
VideoTrackSanityCheck(base, overlay) ==
    LET at == "VideoTrack.sanity_check"
    IN  IF \E i \in 1..(Len(base) - 1) : base[i].span[2] # base[i + 1].span[1]
        THEN Raise("ValueError", at)
        ELSE IF overlay # <<>> /\ base = <<>>
        THEN Raise("IndexError", at)
        ELSE IF \E i \in DOMAIN overlay :
                    StrLess(base[Len(base)].span[2], overlay[i].span[2])
        THEN Raise("ValueError", at)
        ELSE NoError

VideoTrackChecks_Unsorted(vt) ==
    LET at      == "VideoTrack.process"
        base    == StableSort(vt.clips_base, "span[0]")
        overlay == StableSort(vt.clips_overlay, "layer")
    IN  [track |-> vt,
         error |-> IF base = <<>> THEN Raise("AssertionError", at)
                   ELSE IF timecode2seconds(base[1].span[1]) # 0
                   THEN Raise("AssertionError", at)
                   ELSE VideoTrackSanityCheck(base, overlay)]

\* VideoTrack.process() up to and including sanity_check(): the track with its
\* lists sorted in place, and the exception raised, or NoError
VideoTrackChecks(vt) ==
    LET at      == "VideoTrack.process"
        base    == StableSort(vt.clips_base, "span[0]")
        overlay == StableSort(vt.clips_overlay, "layer")
    IN  [track |-> [vt EXCEPT !.clips_base = base, !.clips_overlay = overlay],
         error |-> IF base = <<>> THEN Raise("AssertionError", at)
                   ELSE IF timecode2seconds(base[1].span[1]) # 0
                   THEN Raise("AssertionError", at)
                   ELSE VideoTrackSanityCheck(base, overlay)]

\* VideoTrack.process(), lines 196-202
VideoTrackValidate ==
    /\ pc = "video"
    /\ LET r == VideoTrackChecks(video_track)
       IN  /\ video_track' = r.track
           /\ error' = r.error
           /\ pc' = IF r.error = NoError THEN "video_normalize" ELSE "error"
           /\ idx' = IF r.error = NoError THEN 1 ELSE idx
    /\ UNCHANGED <<caller, config, workspace, audio_track, subtitle, channel,
                   todo, audio_channel_paths, invocations, output, calls>>

\* VideoTrack.process(), lines 203-208: one turn of the loop that normalizes
\* the base clips, then the overlay clips.  The handler of a failure calls
\* logger.fail, which logging.Logger does not have.
VideoTrackNormalize ==
    /\ pc = "video_normalize"
    /\ \E probeOk \in BOOLEAN, runOk \in BOOLEAN :
         LET nBase == Len(video_track.clips_base)
             clips == video_track.clips_base \o video_track.clips_overlay
             r     == VideoClipNormalize(clips[idx], probeOk, runOk)
         IN  /\ video_track' =
                    IF idx <= nBase
                    THEN [video_track EXCEPT !.clips_base[idx] = r.clip]
                    ELSE [video_track EXCEPT !.clips_overlay[idx - nBase] = r.clip]
             /\ invocations' = invocations \o r.made
             /\ error' = IF r.error = NoError THEN NoError
                         ELSE Raise("AttributeError", "VideoTrack.process")
             /\ pc' = IF r.error # NoError THEN "error"
                      ELSE IF idx < Len(clips) THEN "video_normalize"
                      ELSE "video_concat"
             /\ idx' = IF r.error = NoError /\ idx < Len(clips) THEN idx + 1 ELSE idx
    /\ UNCHANGED <<caller, config, workspace, audio_track, subtitle, channel,
                   todo, audio_channel_paths, output, calls>>

\* VideoTrack.process(), lines 210-232: the concat run over the base clips in
\* list order; without overlays the base video is copied to the track's path
VideoTrackConcat ==
    /\ pc = "video_concat"
    /\ \E runOk \in BOOLEAN :
         LET at  == "VideoTrack.process"
             run == Invocation("run", at, <<"video", "base">>, runOk,
                               [concat |-> [i \in DOMAIN video_track.clips_base
                                              |-> video_track.clips_base[i].uid]])
         IN  /\ invocations' = Append(invocations, run)
             /\ error' = IF runOk THEN NoError ELSE Raise("ValueError", at)
             /\ pc' = IF ~runOk THEN "error"
                      ELSE IF video_track.clips_overlay = <<>> THEN AfterVideoTrack
                      ELSE "video_overlay"
    /\ UNCHANGED <<caller, config, workspace, video_track, audio_track, subtitle,
                   idx, channel, todo, audio_channel_paths, output, calls>>

\* VideoTrack.process(), lines 234-261: the overlay run
VideoTrackOverlay ==
    /\ pc = "video_overlay"
    /\ \E runOk \in BOOLEAN :
         LET at  == "VideoTrack.process"
             run == Invocation("run", at, <<"video", "track">>, runOk,
                               [overlay |-> [i \in DOMAIN video_track.clips_overlay
                                               |-> video_track.clips_overlay[i].uid]])
         IN  /\ invocations' = Append(invocations, run)
             /\ error' = IF runOk THEN NoError ELSE Raise("ValueError", at)
             /\ pc' = IF runOk THEN AfterVideoTrack ELSE "error"
    /\ UNCHANGED <<caller, config, workspace, video_track, audio_track, subtitle,
                   idx, channel, todo, audio_channel_paths, output, calls>>

----------------------------------------------------------------------------
(* The driver of src/vmps/video/track.py: a VideoTrack built from the clips
   of a configuration, in declared order, and process() called on it *)

\* timecodes of the tracks driven on their own: T2 and T2u are the same time
\* written differently, and T2u sorts after T9 and T10 as a string
TrackTimes == {T0, T2, T2u, T9, T10}

TrackSpans ==
    {s \in TrackTimes \X TrackTimes : timecode2seconds(s[1]) < timecode2seconds(s[2])}

PlainVideoAsset == [kind |-> "video", duration |-> 2000, codec |-> "h264"]

TrackVideoConfigs ==
    [asset : {PlainVideoAsset}, span : TrackSpans, clip : {None},
     extension : {"repeat_last"}, shrink : {"trim_end"}, layer : {0, 1}]

\* the sequences over S of length 1..n
SeqsUpTo(S, n) == UNION {[1..k -> S] : k \in 1..n}

\* VideoTrack.add_clip over the clips built from cfgs
VideoTrackOf(cfgs) ==
    LET clips == [i \in DOMAIN cfgs |-> VideoClip(i, cfgs[i])]
    IN  [present |-> TRUE,
         clips_base |-> SelectSeq(clips, LAMBDA c : c.layer = 0),
         clips_overlay |-> SelectSeq(clips, LAMBDA c : c.layer # 0)]

InitVideo ==
    /\ pc = "video"
    /\ caller = "VideoTrack"
    /\ config = NoConfig
    /\ workspace = "exists"
    /\ \E cfgs \in SeqsUpTo(TrackVideoConfigs, MaxClips) :
         video_track = VideoTrackOf(cfgs)
    /\ audio_track = NoAudioTrack
    /\ subtitle = NoSubtitle
    /\ idx = 0
    /\ channel = 0
    /\ todo = {}
    /\ audio_channel_paths = <<>>
    /\ invocations = <<>>
    /\ output = "none"
    /\ error = NoError
    /\ calls = 0

NextVideo ==
    \/ VideoTrackValidate
    \/ VideoTrackNormalize
    \/ VideoTrackConcat
    \/ VideoTrackOverlay

SpecVideo == InitVideo /\ [][NextVideo]_vars

----------------------------------------------------------------------------
(* src/vmps/audio/track.py: AudioTrack *)

SetMax(S) == CHOOSE x \in S : \A y \in S : y <= x

\* set([clip.channel for clip in self.clips])
ChannelsOf(clips) == {clips[i].channel : i \in DOMAIN clips}

\* the slot of an int in the table of a small set: its hash, which is the int
\* itself, and -2 for -1, modulo the table size
SetTableSize == 8
Slot(c) == (IF c = -1 THEN -2 ELSE c) % SetTableSize

\* the order in which a for loop, or list(), goes through a set of ints that
\* fall in different slots: by slot
RECURSIVE SetOrder(_)
SetOrder(S) ==
    IF S = {} THEN <<>>
    ELSE LET c == CHOOSE x \in S : \A y \in S : Slot(x) <= Slot(y)
         IN  <<c>> \o SetOrder(S \ {c})

\* the places in self.clips of the clips of one channel, in list order
ChannelPlaces(clips, ch) ==
    SelectSeq([i \in DOMAIN clips |-> i], LAMBDA i : clips[i].channel = ch)

\* [clip for clip in self.clips if clip.channel == channel]
ClipsOfChannel(clips, ch) == SelectSeq(clips, LAMBDA c : c.channel = ch)

\* AudioTrack.duration
AudioTrackDuration(at) ==
    SetMax({timecode2seconds(at.clips[i].span[2]) : i \in DOMAIN at.clips})

\* AudioTrack.sanity_check(): the exception it raises, or NoError.  max() of
\* no channel raises ValueError; the clips of a channel are sorted by their
\* start timecode as a string, and neighbours compared as times.
AudioTrackSanityCheck(clips) ==
    LET at       == "AudioTrack.sanity_check"
        channels == ChannelsOf(clips)
    IN  IF channels = {} THEN Raise("ValueError", at)
        ELSE IF SetMax(channels) # Cardinality(channels) - 1
        THEN Raise("AssertionError", at)
        ELSE IF \E ch \in channels :
                    LET sorted == StableSort(ClipsOfChannel(clips, ch), "span[0]")
                    IN  \E i \in 1..(Len(sorted) - 1) :
                            ~(timecode2seconds(sorted[i + 1].span[1])
                                  >= timecode2seconds(sorted[i].span[2]))
        THEN Raise("AssertionError", at)
        ELSE NoError

\* AudioTrack.process(), line 160
AudioTrackCheck ==
    /\ pc = "audio"
    /\ LET e == AudioTrackSanityCheck(audio_track.clips)
       IN  /\ error' = e
           /\ pc' = IF e = NoError THEN "audio_channel" ELSE "error"
           /\ todo' = IF e = NoError THEN ChannelsOf(audio_track.clips) ELSE todo
    /\ UNCHANGED <<caller, config, workspace, video_track, audio_track, subtitle,
                   idx, channel, audio_channel_paths, invocations, output, calls>>

\* AudioTrack.process(), line 162: the loop over the set of channels takes the
\* next channel, in the set's iteration order
AudioChannelBegin ==
    /\ pc = "audio_channel"
    /\ channel' = SetOrder(todo)[1]
    /\ idx' = 1
    /\ pc' = "audio_normalize"
    /\ UNCHANGED <<caller, config, workspace, video_track, audio_track, subtitle,
                   todo, audio_channel_paths, invocations, output, error, calls>>

\* AudioTrack.process_one_channel(), lines 203-209: one turn of the loop that
\* normalizes the channel's clips; a failure is logged and raised again
AudioChannelNormalize ==
    /\ pc = "audio_normalize"
    /\ \E probeOk \in BOOLEAN, runOk \in BOOLEAN :
         LET places == ChannelPlaces(audio_track.clips, channel)
             r      == AudioClipNormalize(audio_track.clips[places[idx]], probeOk, runOk)
         IN  /\ audio_track' = [audio_track EXCEPT !.clips[places[idx]] = r.clip]
             /\ invocations' = invocations \o r.made
             /\ error' = r.error
             /\ pc' = IF r.error # NoError THEN "error"
                      ELSE IF idx < Len(places) THEN "audio_normalize"
                      ELSE "audio_mix"
             /\ idx' = IF r.error = NoError /\ idx < Len(places) THEN idx + 1 ELSE idx
    /\ UNCHANGED <<caller, config, workspace, video_track, subtitle, channel,
                   todo, audio_channel_paths, output, calls>>

\* AudioTrack.process_one_channel(), lines 211-234, and the append of line 165:
\* the channel's clips delayed to their start and mixed
AudioChannelMix ==
    /\ pc = "audio_mix"
    /\ \E runOk \in BOOLEAN :
         LET at    == "AudioTrack.process_one_channel"
             clips == ClipsOfChannel(audio_track.clips, channel)
             run   == Invocation("run", at, <<"audio", "channel">>, runOk,
                                 [channel |-> channel,
                                  ar |-> audio_track.sample_rate,
                                  inputs |-> [i \in DOMAIN clips |-> clips[i].uid],
                                  adelay |-> [i \in DOMAIN clips
                                                |-> timecode2seconds(clips[i].span[1])]])
         IN  /\ invocations' = Append(invocations, run)
             /\ error' = IF runOk THEN NoError ELSE Raise("ValueError", at)
             /\ todo' = IF runOk THEN todo \ {channel} ELSE todo
             /\ audio_channel_paths' =
                    IF runOk THEN Append(audio_channel_paths, channel)
                    ELSE audio_channel_paths
             /\ pc' = IF ~runOk THEN "error"
                      ELSE IF todo \ {channel} = {} THEN "audio_join"
                      ELSE "audio_channel"
    /\ UNCHANGED <<caller, config, workspace, video_track, audio_track, subtitle,
                   idx, channel, output, calls>>

\* set([clip.channel for clip in self.clips
\*      if timecode2seconds(clip.span[1]) == self.duration])
ChannelsWithMaxDuration(at) ==
    {at.clips[i].channel :
        i \in {j \in DOMAIN at.clips :
                  timecode2seconds(at.clips[j].span[2]) = AudioTrackDuration(at)}}

\* AudioTrack.process(), lines 167-194: the arguments of the join command.
\* inputs: the channel whose file each -i carries, in order (input index
\* k - 1 is inputs[k]); filters: for each "[c:a]anull[ac];" or "[c:a]apad[ac];"
\* the input index it reads, whether it pads, and its label; join: the labels
\* in the order they are joined
JoinArgs(at, paths) ==
    LET channels == ChannelsOf(at.clips)
        longest  == ChannelsWithMaxDuration(at)
        order    == SetOrder(channels)
    IN  [inputs |-> paths,
         filters |-> [k \in DOMAIN order |->
                        [index |-> order[k], pad |-> order[k] \notin longest,
                         label |-> order[k]]],
         join |-> SetOrder(channels \ longest) \o SetOrder(longest),
         ar |-> at.sample_rate]

\* AudioTrack.process(), lines 167-200: the join run over the channel artifacts
AudioTrackJoin ==
    /\ pc = "audio_join"
    /\ \E runOk \in BOOLEAN :
         LET at  == "AudioTrack.process"
             run == Invocation("run", at, <<"audio", "track">>, runOk,
                               JoinArgs(audio_track, audio_channel_paths))
         IN  /\ invocations' = Append(invocations, run)
             /\ error' = IF runOk THEN NoError ELSE Raise("ValueError", at)
             /\ pc' = IF runOk THEN AfterAudioTrack ELSE "error"
    /\ UNCHANGED <<caller, config, workspace, video_track, audio_track, subtitle,
                   idx, channel, todo, audio_channel_paths, output, calls>>

----------------------------------------------------------------------------
(* The driver of src/vmps/audio/track.py: an AudioTrack built from the clips
   of a configuration, in declared order, and process() called on it *)

PlainAudioAsset == [kind |-> "audio", duration |-> 2000]

TrackAudioConfigs ==
    [asset : {PlainAudioAsset}, span : TrackSpans, clip : {None},
     channel : {-1, 0, 1}, loop : {TRUE}, sample_rate : {RateOmitted}]

\* AudioTrack.add_clips_from_config
AudioTrackOf(cfgs, sample_rate) ==
    [present |-> TRUE,
     clips |-> [i \in DOMAIN cfgs |-> AudioClip(i, cfgs[i], sample_rate)],
     sample_rate |-> sample_rate]

InitAudio ==
    /\ pc = "audio"
    /\ caller = "AudioTrack"
    /\ config = NoConfig
    /\ workspace = "exists"
    /\ video_track = NoVideoTrack
    /\ \E cfgs \in SeqsUpTo(TrackAudioConfigs, MaxClips) :
         audio_track = AudioTrackOf(cfgs, PlainSampleRate)
    /\ subtitle = NoSubtitle
    /\ idx = 0
    /\ channel = 0
    /\ todo = {}
    /\ audio_channel_paths = <<>>
    /\ invocations = <<>>
    /\ output = "none"
    /\ error = NoError
    /\ calls = 0

NextAudio ==
    \/ AudioTrackCheck
    \/ AudioChannelBegin
    \/ AudioChannelNormalize
    \/ AudioChannelMix
    \/ AudioTrackJoin

SpecAudio == InitAudio /\ [][NextAudio]_vars

----------------------------------------------------------------------------
(* src/vmps/subtitle/subtitle.py: Style and Subtitle.  Of the parameters of a
   Style, fontname, fontsize, primary_colour and secondary_colour vary; the
   others keep their defaults. *)

\* the defaults of Style.__init__
DefaultStyle ==
    [fontname |-> "Arial", fontsize |-> 20, primary_colour |-> "&H00FFFFFF",
     secondary_colour |-> "&H00FF0000"]

\* Style.__init__: name is the first group of a fresh uuid4, here the number
\* of Style objects made before this one
Style(name, params) == [name |-> name, params |-> params]

\* str(self).split(",", maxsplit=1)[1]: the text of Style.__str__ after the
\* name, the parameters formatted and joined by ", "
StyleText(st) ==
    " " \o st.params.fontname \o ", " \o ToString(st.params.fontsize) \o ", "
        \o st.params.primary_colour \o ", " \o st.params.secondary_colour
        \o ", &H00000000, &H80000000, 0, 0, 0, 0, 100, 100, 0, 0, 1, 2, 0, 2, 10, 10, 10, 1"

\* Style.__eq__: the hashes of the two texts are equal, which equal texts
\* make them
StyleEq(a, b) == StyleText(a) = StyleText(b)

\* Subtitle.__init__
NewSubtitle ==
    [present |-> TRUE, written |-> FALSE, styles |-> <<Style(0, DefaultStyle)>>,
     clips |-> <<>>]

\* Subtitle.add_clip(), lines 106-110, for a cue whose Style was made
SubtitleAddClip(sub, cue) ==
    LET style == Style(Len(sub.clips) + 1, cue.style)
        equal == {i \in DOMAIN sub.styles : StyleEq(sub.styles[i], style)}
        used  == IF equal = {} THEN style
                 ELSE sub.styles[CHOOSE i \in equal : \A j \in equal : i <= j]
    IN  [sub EXCEPT
            !.styles = IF equal = {} THEN Append(@, style) ELSE @,
            !.clips = Append(@, [layer |-> cue.layer, span |-> cue.span,
                                 style |-> used.name, text |-> cue.text])]

----------------------------------------------------------------------------
(* src/vmps/task.py: VMPSTask, driven as by its __main__: construct,
   process(), clean().  An exception ends the program where it is raised. *)

\* src/vmps/video/utils.py get_video_codec(): the codec of the asset's video
\* stream, or None
get_video_codec(asset) == asset.codec

\* The index of the video clip whose construction raises, when the first nOk
\* codec probes succeed; 0 when every clip is constructed
FailingVideoClip(cfgs, nOk) ==
    LET bad == {i \in DOMAIN cfgs : i > nOk \/ get_video_codec(cfgs[i].asset) = "none"}
    IN  IF bad = {} THEN 0 ELSE CHOOSE i \in bad : \A j \in bad : i <= j

\* VMPSTask.__init__: the workspace is made, then the tracks and their clips
\* are built from the configuration; each VideoClip.__init__ probes its
\* asset's codec and asserts that it has one
Construct ==
    /\ pc = "construct"
    /\ workspace' = "exists"
    /\ \E nOk \in 0..Len(config.video.clips) :
         LET cfgs   == config.video.clips
             failed == FailingVideoClip(cfgs, nOk)
             built  == IF failed = 0 THEN cfgs ELSE SubSeq(cfgs, 1, failed - 1)
             probed == IF failed = 0 THEN Len(cfgs) ELSE failed
             at     == "VideoClip.__init__"
         IN  /\ invocations' =
                    invocations \o
                    [i \in 1..probed |->
                        Invocation("probe", at, <<"video", i>>, i <= nOk, NoArgs)]
             /\ video_track' = IF config.video.present THEN VideoTrackOf(built)
                               ELSE NoVideoTrack
             /\ error' = IF failed = 0 THEN NoError
                         ELSE IF failed > nOk THEN Raise("ffmpeg.Error", at)
                         ELSE Raise("AssertionError", at)
             /\ audio_track' = IF failed = 0 /\ config.audio.present
                               THEN AudioTrackOf(config.audio.clips,
                                                 config.audio.sample_rate)
                               ELSE NoAudioTrack
             /\ subtitle' = IF failed = 0 /\ config.subtitle
                            THEN NewSubtitle
                            ELSE NoSubtitle
             /\ pc' = IF failed = 0 THEN "process" ELSE "error"
    /\ UNCHANGED <<caller, config, idx, channel, todo, audio_channel_paths,
                   output, calls>>

DurationsCompatible_Swapped(video, audio) == video <= audio

\* self.video_track.duration >= self.audio_track.duration
DurationsCompatible(video, audio) == video >= audio

\* VMPSTask.sanity_check(): the exception it raises, or NoError
TaskSanityCheck(vt, at) ==
    LET here == "VMPSTask.sanity_check"
    IN  IF ~(vt.present /\ at.present) THEN NoError
        ELSE IF vt.clips_base = <<>> THEN Raise("IndexError", here)
        ELSE IF at.clips = <<>> THEN Raise("ValueError", here)
        ELSE IF ~DurationsCompatible(VideoTrackDuration(vt), AudioTrackDuration(at))
        THEN Raise("AssertionError", here)
        ELSE NoError

\* VMPSTask.process(), line 51
ProcessSanityCheck ==
    /\ pc = "process"
    /\ LET e == TaskSanityCheck(video_track, audio_track)
       IN  /\ error' = e
           /\ pc' = IF e = NoError THEN AfterSanityCheck ELSE "error"
    /\ UNCHANGED <<caller, config, workspace, video_track, audio_track, subtitle,
                   idx, channel, todo, audio_channel_paths, invocations, output,
                   calls>>

\* VMPSTask.process(), lines 56-57: Subtitle.process() writes the caption file
SubtitleProcess ==
    /\ pc = "subtitle"
    /\ subtitle' = [subtitle EXCEPT !.written = TRUE]
    /\ pc' = IF caller = "Subtitle" THEN "done" ELSE "mux"
    /\ UNCHANGED <<caller, config, workspace, video_track, audio_track, idx,
                   channel, todo, audio_channel_paths, invocations, output, error,
                   calls>>

MuxOutcome_MuxWithoutVideo(probeOk, hasAudio, runOk) ==
    LET at  == "VMPSTask.process"
        run == Invocation("run", at, <<"task", "output">>, runOk,
                          [audio |-> audio_track.present, amix |-> FALSE,
                           subtitles |-> subtitle.present])
    IN  IF video_track.present \/ audio_track.present
        THEN [made |-> <<run>>,
              output |-> IF runOk THEN "muxed" ELSE output,
              error |-> IF runOk THEN NoError ELSE Raise("CalledProcessError", at)]
        ELSE [made |-> <<>>, output |-> output, error |-> Raise("ValueError", at)]

MuxOutcome_MoveWithoutAudio(probeOk, hasAudio, runOk) ==
    LET at  == "VMPSTask.process"
        run == Invocation("run", at, <<"task", "output">>, runOk,
                          [audio |-> audio_track.present, amix |-> FALSE,
                           subtitles |-> subtitle.present])
    IN  IF video_track.present
        THEN [made |-> <<run>>,
              output |-> IF runOk THEN "muxed" ELSE output,
              error |-> IF runOk THEN NoError ELSE Raise("CalledProcessError", at)]
        ELSE [made |-> <<>>, output |-> "moved", error |-> NoError]

\* VMPSTask.process(), lines 59-86: what the final step makes, raises and
\* leaves at the output path.  hasAudio: whether the video artifact carries an
\* audio stream.
MuxOutcome(probeOk, hasAudio, runOk) ==
    LET at    == "VMPSTask.process"
        probe == Invocation("probe", "has_audio_track", <<"video", "track">>,
                            probeOk, NoArgs)
        run   == Invocation("run", at, <<"task", "output">>, runOk,
                            [audio |-> audio_track.present,
                             amix |-> audio_track.present /\ hasAudio,
                             subtitles |-> subtitle.present])
    IN  IF video_track.present
        THEN IF audio_track.present /\ ~probeOk
             THEN [made |-> <<probe>>, output |-> output,
                   error |-> Raise("ffmpeg.Error", "has_audio_track")]
             ELSE [made |-> IF audio_track.present THEN <<probe, run>> ELSE <<run>>,
                   output |-> IF runOk THEN "muxed" ELSE output,
                   error |-> IF runOk THEN NoError
                             ELSE Raise("CalledProcessError", at)]
        ELSE IF audio_track.present
        THEN [made |-> <<>>, output |-> "moved", error |-> NoError]
        ELSE [made |-> <<>>, output |-> output, error |-> Raise("ValueError", at)]

Mux ==
    /\ pc = "mux"
    /\ \E probeOk \in BOOLEAN, hasAudio \in BOOLEAN, runOk \in BOOLEAN :
         LET r == MuxOutcome(probeOk, hasAudio, runOk)
         IN  /\ invocations' = invocations \o r.made
             /\ output' = r.output
             /\ error' = r.error
             /\ pc' = IF r.error = NoError THEN "clean" ELSE "error"
    /\ UNCHANGED <<caller, config, workspace, video_track, audio_track, subtitle,
                   idx, channel, todo, audio_channel_paths, calls>>

\* VMPSTask.clean(), called by the driver once process() has returned
Clean ==
    /\ pc = "clean"
    /\ workspace' = "deleted"
    /\ pc' = "done"
    /\ UNCHANGED <<caller, config, video_track, audio_track, subtitle, idx,
                   channel, todo, audio_channel_paths, invocations, output, error,
                   calls>>

\* the clip declarations of whole-task configurations
TaskVideoConfigs ==
    [asset : {PlainVideoAsset}, span : {<<T0, T2>>, <<T2, T9>>}, clip : {None},
     extension : {"repeat_last"}, shrink : {"trim_end"}, layer : {0}]
    \cup
    [asset : {PlainVideoAsset}, span : {<<T0, T2>>}, clip : {None},
     extension : {"repeat_last"}, shrink : {"trim_end"}, layer : {1}]
    \cup
    [asset : {[kind |-> "other", duration |-> 2000, codec |-> "none"]},
     span : {<<T0, T2>>}, clip : {None},
     extension : {"repeat_last"}, shrink : {"trim_end"}, layer : {0}]

TaskAudioConfigs ==
    [asset : {PlainAudioAsset}, span : {<<T0, T2>>, <<T2, T4>>, <<T0, T10>>},
     clip : {None}, channel : {0}, loop : {TRUE}, sample_rate : {RateOmitted}]
    \cup
    [asset : {PlainAudioAsset}, span : {<<T0, T2>>},
     clip : {None}, channel : {1}, loop : {TRUE}, sample_rate : {RateOmitted}]

TaskConfigs ==
    [video : [present : {TRUE}, clips : {<<>>} \cup SeqsUpTo(TaskVideoConfigs, MaxTaskClips)]
                \cup {[present |-> FALSE, clips |-> <<>>]},
     audio : [present : {TRUE},
              clips : {<<>>} \cup SeqsUpTo(TaskAudioConfigs, MaxTaskClips),
              sample_rate : {PlainSampleRate}]
                \cup {[present |-> FALSE, clips |-> <<>>, sample_rate |-> 0]},
     subtitle : BOOLEAN, subtitle_clips : {<<>>}]

Init ==
    /\ pc = "construct"
    /\ caller = "VMPSTask"
    /\ config \in TaskConfigs
    /\ workspace = "none"
    /\ video_track = NoVideoTrack
    /\ audio_track = NoAudioTrack
    /\ subtitle = NoSubtitle
    /\ idx = 0
    /\ channel = 0
    /\ todo = {}
    /\ audio_channel_paths = <<>>
    /\ invocations = <<>>
    /\ output = "none"
    /\ error = NoError
    /\ calls = 0

Next ==
    \/ Construct
    \/ ProcessSanityCheck
    \/ VideoTrackValidate
    \/ VideoTrackNormalize
    \/ VideoTrackConcat
    \/ VideoTrackOverlay
    \/ AudioTrackCheck
    \/ AudioChannelBegin
    \/ AudioChannelNormalize
    \/ AudioChannelMix
    \/ AudioTrackJoin
    \/ SubtitleProcess
    \/ Mux
    \/ Clean

Spec == Init /\ [][Next]_vars

----------------------------------------------------------------------------
(* The driver of src/vmps/subtitle/subtitle.py: a Subtitle, the cues of a
   configuration added to it one by one, and process() called on it *)

MaxCues == 3

StyleParams ==
    [fontname : {"Arial"}, fontsize : {20, 24},
     primary_colour : {"&H00FFFFFF", "&H00FFFFFF, &H00FF0000"},
     secondary_colour : {"&H00FF0000", "&H00FF0000, &H00FF0000"}]

\* the entries of config["subtitle"]["clips"]; unknown: the entry has a key
\* that is no parameter of Style
CueConfigs ==
    [span : {<<T0, T2>>}, text : {"text"}, layer : {0}, style : StyleParams,
     unknown : {FALSE}]
    \cup
    [span : {<<T0, T2>>}, text : {"text"}, layer : {0}, style : {DefaultStyle},
     unknown : {TRUE}]

InitSubtitle ==
    /\ pc = "subtitle"
    /\ caller = "Subtitle"
    /\ \E cues \in SeqsUpTo(CueConfigs, MaxCues) :
         config = [NoConfig EXCEPT !.subtitle = TRUE, !.subtitle_clips = cues]
    /\ workspace = "exists"
    /\ video_track = NoVideoTrack
    /\ audio_track = NoAudioTrack
    /\ subtitle = NewSubtitle
    /\ idx = 1
    /\ channel = 0
    /\ todo = {}
    /\ audio_channel_paths = <<>>
    /\ invocations = <<>>
    /\ output = "none"
    /\ error = NoError
    /\ calls = 0

\* Subtitle.add_clips_from_config(): one turn of its loop, add_clip() on the
\* next entry; Style(**style_kwargs) raises TypeError for an unknown key
AddClip ==
    /\ pc = "subtitle"
    /\ caller = "Subtitle"
    /\ idx <= Len(config.subtitle_clips)
    /\ LET cue == config.subtitle_clips[idx]
       IN  IF cue.unknown
           THEN /\ error' = Raise("TypeError", "Subtitle.add_clip")
                /\ pc' = "error"
                /\ UNCHANGED <<subtitle, idx>>
           ELSE /\ subtitle' = SubtitleAddClip(subtitle, cue)
                /\ idx' = idx + 1
                /\ UNCHANGED <<pc, error>>
    /\ UNCHANGED <<caller, config, workspace, video_track, audio_track, channel,
                   todo, audio_channel_paths, invocations, output, calls>>

\* subtitle.process(), once every entry has been added
ProcessSubtitle ==
    /\ caller = "Subtitle"
    /\ idx > Len(config.subtitle_clips)
    /\ SubtitleProcess

NextSubtitle == AddClip \/ ProcessSubtitle

SpecSubtitle == InitSubtitle /\ [][NextSubtitle]_vars


----------------------------------------------------------------------------
(* Vocabulary of the properties *)

AllClips == audio_track.clips \o video_track.clips_base \o video_track.clips_overlay

NormalizeOps == {"AudioClip.normalize", "VideoClip.normalize"}

\* invocation e is the encoding run of clip c's normalize()
IsNormalizeRun(e, c) == e.tool = "run" /\ e.op \in NormalizeOps /\ e.uid = c.uid

IsNormalizeProbe(e, c) == e.tool = "probe" /\ e.op \in NormalizeOps /\ e.uid = c.uid

\* the invocations a step appended
Appended == SubSeq(invocations', Len(invocations) + 1, Len(invocations'))

\* the destination span length, as a time
SpanLength(c) == timecode2seconds(c.span[2]) - timecode2seconds(c.span[1])

\* the source duration: the trim window's length when a window is given (an
\* absent bound being the start or the end of the asset), else the probed length
SourceDuration(c) ==
    LET from  == IF c.clip = None \/ c.clip[1] = None
                 THEN 0 ELSE timecode2seconds(c.clip[1])
        until == IF c.clip = None \/ c.clip[2] = None
                 THEN c.asset.duration ELSE timecode2seconds(c.clip[2])
    IN  until - from

Ceil(e, a) == -((-e) \div a)

AudioClips == {audio_track.clips[i] : i \in DOMAIN audio_track.clips}

VideoClips ==
    {video_track.clips_base[i] : i \in DOMAIN video_track.clips_base}
        \cup {video_track.clips_overlay[i] : i \in DOMAIN video_track.clips_overlay}

\* the looping runs of audio clips whose source is shorter than the span
LoopRuns ==
    {<<i, c>> \in (DOMAIN invocations) \X AudioClips :
        /\ IsNormalizeRun(invocations[i], c)
        /\ c.loop
        /\ 0 < SourceDuration(c)
        /\ SourceDuration(c) < SpanLength(c)}

----------------------------------------------------------------------------
(* Validation verdicts of the tracks, and the properties of their inputs *)

\* AudioTrack.sanity_check has run / has raised
AudioChecked == caller = "AudioTrack" /\ pc # "audio"

AudioRejected == pc = "error" /\ error.at = "AudioTrack.sanity_check"

\* the channel indices used are exactly 0 .. n-1
ChannelsContiguous ==
    LET channels == ChannelsOf(audio_track.clips)
    IN  channels = 0..(Cardinality(channels) - 1)

\* two spans share some time
SpansOverlap(s, t) ==
    /\ timecode2seconds(s[1]) < timecode2seconds(t[2])
    /\ timecode2seconds(t[1]) < timecode2seconds(s[2])

\* no two clips of one channel overlap in time
NoOverlapInChannel ==
    \A i, j \in DOMAIN audio_track.clips :
        (i # j /\ audio_track.clips[i].channel = audio_track.clips[j].channel)
            => ~SpansOverlap(audio_track.clips[i].span, audio_track.clips[j].span)

\* the validation of VideoTrack.process has run / has raised
VideoChecked == caller = "VideoTrack" /\ pc # "video"

VideoRejected ==
    /\ pc = "error"
    /\ \/ error.at = "VideoTrack.sanity_check"
       \/ error = Raise("AssertionError", "VideoTrack.process")

\* the base clips tile the timeline from zero: in some order of nondecreasing
\* start time, the first starts at time zero and each ends at the time the
\* next starts
BaseTilesTimeline ==
    LET base == video_track.clips_base
        n    == Len(base)
        from(i) == timecode2seconds(base[i].span[1])
        to(i)   == timecode2seconds(base[i].span[2])
    IN  /\ n > 0
        /\ \E p \in Permutations(1..n) :
              /\ from(p[1]) = 0
              /\ \A i \in 1..(n - 1) :
                    from(p[i]) <= from(p[i + 1]) /\ to(p[i]) = from(p[i + 1])

\* the base track's total duration, as a time
BaseDuration ==
    SetMax({timecode2seconds(video_track.clips_base[i].span[2]) :
               i \in DOMAIN video_track.clips_base})

\* the base clips alone pass the validation
BaseAccepted ==
    VideoTrackChecks([video_track EXCEPT !.clips_overlay = <<>>]).error = NoError

(* C1: for a non-empty set of audio clips, AudioTrack.sanity_check accepts if
   and only if the channel indices used are exactly 0 .. n-1 and no two clips
   of one channel overlap in time, over every pair of clips of the channel. *)
C1_AudioSanityCheckExact ==
    (AudioChecked /\ audio_track.clips # <<>>)
        => (~AudioRejected <=> (ChannelsContiguous /\ NoOverlapInChannel))

(* C2: for a non-empty sequence of base clips (and no overlay), the validation
   of VideoTrack.process accepts if and only if, sorted by start time, every
   clip's end time equals the next clip's start time and the first clip
   starts at time zero. *)
C2_BaseContiguityExact ==
    (VideoChecked /\ video_track.clips_base # <<>> /\ video_track.clips_overlay = <<>>)
        => (~VideoRejected <=> BaseTilesTimeline)

(* C10: over a base track that is itself accepted, the validation rejects
   every configuration with an overlay clip whose end time is greater than
   the base track's duration, and accepts when every overlay clip's span lies
   within [0, base track duration], times compared as times. *)
C10_OverlayWithinBase ==
    (VideoChecked /\ BaseAccepted)
        => (VideoRejected <=>
                \E i \in DOMAIN video_track.clips_overlay :
                    timecode2seconds(video_track.clips_overlay[i].span[2]) > BaseDuration)

----------------------------------------------------------------------------
(* The whole task *)

\* the configuration declares both tracks, with clips, and VideoTrack.duration
\* (the end of the last declared base clip, at most the latest base end) is
\* less than AudioTrack.duration
VideoShorterThanAudio ==
    /\ config.video.present
    /\ config.audio.present
    /\ config.audio.clips # <<>>
    /\ LET base == SelectSeq(config.video.clips, LAMBDA c : c.layer = 0)
       IN  /\ base # <<>>
           /\ timecode2seconds(base[Len(base)].span[2])
                < SetMax({timecode2seconds(config.audio.clips[i].span[2]) :
                             i \in DOMAIN config.audio.clips})

(* C3, as amended: for a task with an audio and a video track where the
   video track's duration is less than the audio track's, construction
   followed by process() raises an error before any ffmpeg run: the task never
   gets past VMPSTask.sanity_check, which raises when process() reaches it,
   and the only external-tool invocations made are the codec probes of
   VideoClip construction. *)
C3_ShortVideoRaisesBeforeAnyRun ==
    (caller = "VMPSTask" /\ VideoShorterThanAudio)
        => /\ pc \in {"construct", "process", "error"}
           /\ pc = "error" => error # NoError
           /\ pc = "process" => TaskSanityCheck(video_track, audio_track) # NoError
           /\ \A i \in DOMAIN invocations :
                 invocations[i].tool = "probe" /\ invocations[i].op = "VideoClip.__init__"

\* the duration assertion raised, after the codec probes of construction
C3_Witness ==
    /\ caller = "VMPSTask"
    /\ VideoShorterThanAudio
    /\ pc = "error"
    /\ error = Raise("AssertionError", "VMPSTask.sanity_check")
    /\ invocations # <<>>

(* C3, as claimed: for such a task, once built, construction followed by
   process() raises an error before any external-tool invocation, probe or
   ffmpeg run, has occurred. *)
C3_ShortVideoRaisesBeforeAnyInvocation ==
    (/\ caller = "VMPSTask"
     /\ VideoShorterThanAudio
     /\ pc # "construct"
     /\ error.at # "VideoClip.__init__")
        => /\ pc \in {"process", "error"}
           /\ invocations = <<>>

(* C5: when the program driving a task has ended, process() having completed
   or construction or process() having raised, the task's temporary workspace
   directory has been deleted. *)
C5_WorkspaceDeletedAtExit ==
    (caller = "VMPSTask" /\ pc \in {"done", "error"}) => workspace = "deleted"

----------------------------------------------------------------------------
(* Clip.normalize() *)

(* C4: once normalize() has completed successfully on a clip, a later call of
   normalize() on it makes no external-tool invocation and leaves the clip,
   and everything else, as it was. *)
C4_NormalizeIdempotent ==
    [][(calls' = calls + 1 /\ \A i \in DOMAIN AllClips : AllClips[i].normalized)
          => /\ invocations' = invocations
             /\ audio_track' = audio_track
             /\ video_track' = video_track
             /\ error' = NoError]_vars

\* an audio clip normalized by the first call, and normalize() called again
C4_Witness ==
    /\ caller = "clip"
    /\ calls = 2
    /\ Len(invocations) = 2
    /\ audio_track.clips # <<>>
    /\ audio_track.clips[1].normalized

(* C6, as amended: with loop=true and 0 < a < e the repetitions requested are
   floor(e/a) + 1, the least n with n*a > e: ceil(e/a) when a does not divide
   e and ceil(e/a) + 1 when it does; the result is trimmed to exactly e. *)
C6_LoopCountFloorPlusOne ==
    \A r \in LoopRuns :
        LET n == invocations[r[1]].args.aloop
            a == SourceDuration(r[2])
            e == SpanLength(r[2])
        IN  /\ n * a > e
            /\ (n - 1) * a <= e
            /\ n = IF e % a = 0 THEN Ceil(e, a) + 1 ELSE Ceil(e, a)
            /\ invocations[r[1]].args.atrim = e

\* a looping run whose source duration divides the span length
C6_Witness ==
    \E r \in LoopRuns :
        /\ SpanLength(r[2]) % SourceDuration(r[2]) = 0
        /\ invocations[r[1]].args.aloop
              = (SpanLength(r[2]) \div SourceDuration(r[2])) + 1

(* C6, as claimed: with loop=true and 0 < a < e the repetitions requested are
   ceil(e/a), and the result is trimmed to exactly e. *)
C6_LoopCountCeil ==
    \A r \in LoopRuns :
        /\ invocations[r[1]].args.aloop = Ceil(SpanLength(r[2]), SourceDuration(r[2]))
        /\ invocations[r[1]].args.atrim = SpanLength(r[2])

(* C7: a video clip whose extension policy is not repeat_first / repeat_last,
   or whose shrink policy is not trim_start / trim_end, is never normalized:
   normalize() fails and issues no encoding invocation, whatever the durations
   and the asset type. *)
C7_UnknownPolicyRejected ==
    \A c \in VideoClips :
        (~ExtensionKnown(c) \/ ~ShrinkKnown(c))
            => /\ ~c.normalized
               /\ \A i \in DOMAIN invocations : ~IsNormalizeRun(invocations[i], c)
               /\ (caller = "clip" /\ calls > 0) => error # NoError

\* the cases in which the claim has AudioClip.normalize fail
C8_MismatchClaimed(c) ==
    \/ SourceDuration(c) > SpanLength(c)
    \/ SourceDuration(c) < SpanLength(c) /\ ~c.loop

\* the further case in which it fails: nothing to loop
C8_EmptyLoop(c) ==
    c.loop /\ SourceDuration(c) = 0 /\ SpanLength(c) > 0

\* every successful probe of c is followed at once by c's encoding run
C8_Proceeds(c) ==
    \A i \in DOMAIN invocations :
        (IsNormalizeProbe(invocations[i], c) /\ invocations[i].ok)
            => /\ i < Len(invocations)
               /\ IsNormalizeRun(invocations[i + 1], c)

\* no call on c got to the encoding run, c is not normalized, and the last
\* call raised
C8_Fails(c) ==
    /\ ~c.normalized
    /\ \A i \in DOMAIN invocations : ~IsNormalizeRun(invocations[i], c)
    /\ (caller = "clip" /\ calls > 0) => error # NoError

(* C8, as amended: AudioClip.normalize fails, without the encoding invocation
   and without setting normalized, when the source duration exceeds the span
   length, when it is shorter and loop is false, and also (by a division by
   zero) when it is zero, loop is true and the span length is positive; in
   every other case a call whose probe succeeds proceeds to the invocation. *)
C8_DurationChecks ==
    \A c \in AudioClips :
        IF C8_MismatchClaimed(c) \/ C8_EmptyLoop(c)
        THEN C8_Fails(c)
        ELSE C8_Proceeds(c)

\* a zero-length source asked to loop: probed, then the call raised
C8_Witness ==
    \E c \in AudioClips :
        /\ C8_EmptyLoop(c)
        /\ caller = "clip"
        /\ calls = 1
        /\ Len(invocations) = 1
        /\ invocations[1].ok
        /\ error.type = "ZeroDivisionError"

(* C8, as claimed: AudioClip.normalize fails, without the encoding invocation
   and without setting normalized, when the source duration exceeds the span
   length and when it is shorter and loop is false; it proceeds to the
   invocation in every other case. *)
C8_DurationChecksClaimed ==
    \A c \in AudioClips :
        IF C8_MismatchClaimed(c) THEN C8_Fails(c) ELSE C8_Proceeds(c)

(* C9: a clip's normalized flag becomes true only in a step whose last
   invocation is that clip's encoding run, returned with success; a step in
   which the run fails raises to the caller, leaves normalized false, and no
   step makes more than one encoding run for one clip. *)
C9_FlagOnlyOnSuccess ==
    [][\A i \in DOMAIN AllClips :
          LET c    == AllClips[i]
              runs == {k \in DOMAIN Appended : IsNormalizeRun(Appended[k], c)}
          IN  /\ Cardinality(runs) <= 1
              /\ (AllClips'[i].uid = c.uid /\ ~c.normalized /\ AllClips'[i].normalized)
                    => /\ runs = {Len(Appended)}
                       /\ Appended[Len(Appended)].ok
                       /\ error' = NoError
              /\ (AllClips'[i].uid = c.uid /\ \E k \in runs : ~Appended[k].ok)
                    => /\ ~AllClips'[i].normalized
                       /\ error' # NoError
                       /\ runs = {Len(Appended)}]_vars

\* a call whose encoding run failed: raised, clip not normalized
C9_Witness ==
    /\ caller = "clip"
    /\ calls = 1
    /\ invocations # <<>>
    /\ invocations[Len(invocations)].tool = "run"
    /\ ~invocations[Len(invocations)].ok
    /\ error # NoError
    /\ \A i \in DOMAIN AllClips : ~AllClips[i].normalized

----------------------------------------------------------------------------
(* Track duration *)

\* the task has been constructed with a video track that has base clips and
\* an audio track that has clips
BothTracksBuilt ==
    /\ caller = "VMPSTask"
    /\ pc # "construct"
    /\ video_track.present
    /\ audio_track.present
    /\ video_track.clips_base # <<>>
    /\ audio_track.clips # <<>>

\* the end times of the base clips that start last on the timeline
TimelineLastEnds(vt) ==
    LET base   == vt.clips_base
        starts == {timecode2seconds(base[i].span[1]) : i \in DOMAIN base}
    IN  {timecode2seconds(base[i].span[2]) :
            i \in {j \in DOMAIN base :
                      timecode2seconds(base[j].span[1]) = SetMax(starts)}}

(* C11: the duration of a video track is the end time of the last base clip in
   timeline order, whatever the order of declaration, and that is the value
   VMPSTask.sanity_check compares with the audio duration: the check raises
   exactly when the timeline end of the base layer is less than the audio
   duration. *)
C11_DurationIsTimelineEnd ==
    BothTracksBuilt
        => /\ VideoTrackDuration(video_track) \in TimelineLastEnds(video_track)
           /\ pc # "process"
                => (error = Raise("AssertionError", "VMPSTask.sanity_check")
                      <=> \A e \in TimelineLastEnds(video_track) :
                             e < AudioTrackDuration(audio_track))

----------------------------------------------------------------------------
(* The final step of VMPSTask.process() *)

\* the final multiplex invocation is among the invocations made
MuxIssued ==
    \E i \in DOMAIN invocations : invocations[i].uid = <<"task", "output">>

\* process() has returned
ProcessReturned == caller = "VMPSTask" /\ pc \in {"clean", "done"}

(* C12: for a task with an audio track and no video track, process() never
   issues the final multiplex invocation, and when it returns the audio track's
   artifact, made by the join run of AudioTrack.process, has been moved to the
   output path; nothing else is ever put there. *)
C12_AudioOnlyMoved ==
    (caller = "VMPSTask" /\ config.audio.present /\ ~config.video.present)
        => /\ ~MuxIssued
           /\ output \in {"none", "moved"}
           /\ ProcessReturned <=> output = "moved"
           /\ output = "moved"
                => LET last == invocations[Len(invocations)]
                   IN  last.uid = <<"audio", "track">> /\ last.ok

\* an audio-only task has run to its end and its output is the moved artifact
C12_Witness ==
    /\ caller = "VMPSTask"
    /\ config.audio.present
    /\ ~config.video.present
    /\ pc = "done"
    /\ output = "moved"
    /\ ~MuxIssued

(* C13: for a task with neither an audio nor a video track, with or without a
   subtitle document, process() fails: it never returns, the final step raises
   whatever the tools would answer, the error it ends with is the ValueError
   of VMPSTask.process, no tool is invoked and nothing is written to the
   output path. *)
C13_NoTrackFails ==
    (caller = "VMPSTask" /\ ~config.audio.present /\ ~config.video.present)
        => /\ ~ProcessReturned
           /\ output = "none"
           /\ invocations = <<>>
           /\ pc = "error" => error = Raise("ValueError", "VMPSTask.process")
           /\ pc = "mux"
                => \A probeOk \in BOOLEAN, hasAudio \in BOOLEAN, runOk \in BOOLEAN :
                      MuxOutcome(probeOk, hasAudio, runOk).error # NoError

\* a task with only a subtitle document has written its caption file and
\* failed, leaving the output path untouched
C13_Witness ==
    /\ caller = "VMPSTask"
    /\ ~config.audio.present
    /\ ~config.video.present
    /\ config.subtitle
    /\ subtitle.written
    /\ pc = "error"
    /\ error = Raise("ValueError", "VMPSTask.process")
    /\ output = "none"

----------------------------------------------------------------------------
(* The sample rate of AudioClip.normalize() *)

\* the normalization runs of audio clips among the invocations made
AudioNormalizeRuns ==
    {i \in DOMAIN invocations :
        /\ invocations[i].tool = "run"
        /\ invocations[i].op = "AudioClip.normalize"}

\* the rate a clip's config entry declares for it under a track of rate
\* track_rate: the declared integer, DefaultSampleRate where the entry leaves
\* it out, the track's rate where it is None or 0
DeclaredRate(cfg, track_rate) ==
    IF cfg.sample_rate.kind = "omitted" THEN DefaultSampleRate
    ELSE IF cfg.sample_rate.kind = "int" /\ cfg.sample_rate.value # 0
    THEN cfg.sample_rate.value
    ELSE track_rate

(* C14, as amended: for every audio clip, the normalization invocation forces
   the output to one channel at the clip's sample rate: the rate its config
   entry declares, 44100 Hz when the entry declares none, and the owning
   track's sample rate only when the entry declares None or 0. *)
C14_MonoAtClipRate ==
    \A i \in AudioNormalizeRuns :
        LET run == invocations[i]
        IN  /\ run.args.ac = 1
            /\ run.args.ar = DeclaredRate(config.audio.clips[run.uid[2]],
                                          config.audio.sample_rate)

\* a clip that declares no rate, under a track of another rate than the
\* default, has been normalized at the default rate
C14_Witness ==
    /\ AudioNormalizeRuns # {}
    /\ config.audio.clips[1].sample_rate = RateOmitted
    /\ config.audio.sample_rate # DefaultSampleRate
    /\ audio_track.clips[1].normalized
    /\ \A i \in AudioNormalizeRuns :
          invocations[i].args.ar = DefaultSampleRate /\ invocations[i].args.ac = 1

(* C14, as claimed: for every audio clip, the normalization invocation forces
   the output to one channel at the owning track's sample rate. *)
C14_MonoAtTrackRate ==
    \A i \in AudioNormalizeRuns :
        /\ invocations[i].args.ac = 1
        /\ invocations[i].args.ar = audio_track.sample_rate

----------------------------------------------------------------------------
(* Subtitle styles *)

\* the style parameters submitted with the i-th cue added
SubmittedStyle(i) == config.subtitle_clips[i].style

\* two cues submitted with identical style parameters reference the same
\* style record name
SameStyleSameName ==
    \A i, j \in DOMAIN subtitle.clips :
        SubmittedStyle(i) = SubmittedStyle(j)
            => subtitle.clips[i].style = subtitle.clips[j].style

\* every cue whose parameters differed in some field from every record added
\* exactly one record: the table has one record for each parameter tuple
\* submitted, and the default one
OneRecordPerStyle ==
    Len(subtitle.styles)
        = Cardinality({DefaultStyle}
                        \cup {SubmittedStyle(i) : i \in DOMAIN subtitle.clips})

\* the style table never holds two records with equal parameters
NoDuplicateRecord ==
    \A i, j \in DOMAIN subtitle.styles :
        i # j => subtitle.styles[i].params # subtitle.styles[j].params

\* every cue's style name is the name of a record in the table
CueStylesInTable ==
    \A i \in DOMAIN subtitle.clips :
        \E k \in DOMAIN subtitle.styles :
            subtitle.styles[k].name = subtitle.clips[i].style

(* C15: after any sequence of Subtitle.add_clip calls, two cues submitted with
   identical style parameters reference the same style record name, a cue
   whose parameters differ in any field from every existing record has added
   exactly one new record, the style table holds no two records with equal
   parameters, and every cue's style name is the name of a record in the
   table. *)
C15_StyleDeduplication ==
    caller = "Subtitle"
        => /\ SameStyleSameName
           /\ OneRecordPerStyle
           /\ NoDuplicateRecord
           /\ CueStylesInTable

----------------------------------------------------------------------------
(* The concat list of VideoTrack.process() *)

\* the concat runs among the invocations made
ConcatRuns ==
    {i \in DOMAIN invocations :
        /\ invocations[i].op = "VideoTrack.process"
        /\ "concat" \in DOMAIN invocations[i].args}

\* the base clip of the track that has this uid
BaseClip(uid) ==
    LET base == video_track.clips_base
    IN  base[CHOOSE k \in DOMAIN base : base[k].uid = uid]

(* C16: whatever the order in which the base clips were declared, the concat
   list handed to the tool lists each base clip's artifact exactly once, in
   increasing order of start time, and the concat run is made only when
   validation has passed and every base and overlay clip is normalized. *)
C16_ConcatInTimelineOrder ==
    \A r \in ConcatRuns :
        LET list == invocations[r].args.concat
            base == video_track.clips_base
        IN  /\ Len(list) = Len(base)
            /\ \A k \in DOMAIN base : \E i \in DOMAIN list : list[i] = base[k].uid
            /\ \A i, j \in DOMAIN list : i # j => list[i] # list[j]
            /\ \A i, j \in DOMAIN list :
                  i < j => timecode2seconds(BaseClip(list[i]).span[1])
                             < timecode2seconds(BaseClip(list[j]).span[1])
            /\ VideoTrackChecks(video_track).error = NoError
            /\ \A c \in VideoClips : c.normalized

\* a track whose base clips were declared out of timeline order, with an
\* overlay clip, has had its base video made
C16_Witness ==
    /\ caller = "VideoTrack"
    /\ \E r \in ConcatRuns :
          LET list == invocations[r].args.concat
          IN  /\ invocations[r].ok
              /\ Len(list) >= 2
              /\ list[1][2] > list[2][2]
    /\ video_track.clips_overlay # <<>>

----------------------------------------------------------------------------
(* The join invocation of AudioTrack.process() *)

\* the join runs among the invocations made
JoinRuns ==
    {i \in DOMAIN invocations :
        /\ invocations[i].op = "AudioTrack.process"
        /\ "join" \in DOMAIN invocations[i].args}

\* the end of the last clip of the channel
ChannelDuration(ch) ==
    SetMax({timecode2seconds(c.span[2]) : c \in {a \in AudioClips : a.channel = ch}})

\* the filter entries of the join arguments that read the file of channel ch:
\* those whose input index is the place of that file among the inputs
ReadersOf(args, ch) ==
    {k \in DOMAIN args.filters :
        /\ args.filters[k].index + 1 \in DOMAIN args.inputs
        /\ args.inputs[args.filters[k].index + 1] = ch}

(* C17: in the join invocation of AudioTrack.process, made for a configuration
   that sanity_check accepted, each channel's artifact is consumed exactly
   once, through the input index that carries that channel's file and under
   that channel's label; it is tail-padded if and only if the channel's own
   duration is less than the maximum channel duration; and the channels of
   non-maximal duration are joined before those of maximal duration. *)
C17_JoinConsumesEachChannel ==
    \A r \in JoinRuns :
        LET args     == invocations[r].args
            channels == ChannelsOf(audio_track.clips)
            maximal(ch) == ChannelDuration(ch) = AudioTrackDuration(audio_track)
        IN  /\ \A ch \in channels :
                  /\ Cardinality(ReadersOf(args, ch)) = 1
                  /\ \A k \in ReadersOf(args, ch) :
                        /\ args.filters[k].label = ch
                        /\ args.filters[k].pad <=> ~maximal(ch)
            /\ \A k \in DOMAIN args.filters :
                  args.filters[k].index + 1 \in DOMAIN args.inputs
            /\ Len(args.join) = Cardinality(channels)
            /\ \A ch \in channels : \E i \in DOMAIN args.join : args.join[i] = ch
            /\ \A i, j \in DOMAIN args.join :
                  (i < j /\ maximal(args.join[i])) => maximal(args.join[j])

====
